---- MODULE Spec2Model ----
(***************************************************************************)
(* Model of src/lib/performance.ts and of two helpers of                   *)
(* src/lib/seo/utils.ts (sanitizeDescription, generateCanonicalUrl).       *)
(* From performance.ts: the Core Web Vitals coordinator                    *)
(* (initWebVitalsMonitoring), its rater (rateMetric / createMetric), the   *)
(* page events that drive it, the budget check (checkPerformanceBudget),   *)
(* the resource aggregator (trackResourcePerformance), the image audit     *)
(* (trackImageOptimization), the analytics sink (sendToAnalytics) and the  *)
(* orchestrator (initPerformanceMonitoring).                               *)
(*                                                                         *)
(* Units: millisecond metrics are integers in ms; layout-shift scores and  *)
(* the cls thresholds are integers in thousandths (0.1 is 100, 0.25 is     *)
(* 250, 0.05 is 50), so sums of scores are exact.                          *)
(* The timestamp field of a metric (Date.now()) is not modelled.           *)
(***************************************************************************)
EXTENDS Integers, Sequences, FiniteSets, Bags, TLC

VARIABLES
    report,            \* WebVitalsReport: function from the keys that are set to metrics
    reportAllChanges,  \* options.reportAllChanges
    clsValue,          \* running layout-shift sum
    clsEntries,        \* layout-shift entries that were added to the sum
    hidden,            \* document.hidden
    subscribed,        \* observers that are observing and listeners that are attached
    last,              \* the page event delivered most recently
    out,               \* reports passed to onReport by the most recent event, in order
    delivered,         \* bag of the layout-shift entries handed to clsObserver so far
    lcpPending,        \* report.lcp holds a value that no onReport call has carried yet
    inputBatch,        \* entries inputObserver received, if the most recent event was its batch
    navigationEntries, \* performance.getEntriesByType('navigation') at start
    disconnected,      \* the disconnect handle has been called
    rName, rValue, rRating,  \* argument and result of a stand-alone rateMetric call
    pc, host, thrown,  \* initWebVitalsMonitoring step by step: position, observer
                       \* types the host implements, an exception left the function
    paintBatch,        \* entries fcpObserver received, in the paint-stream specification
    domImages,         \* document.querySelectorAll('img'): the img elements in order
    domScripts,        \* document.querySelectorAll('script').length
    bReport, bBudget, bResult,   \* arguments and result of a stand-alone
                                 \* checkPerformanceBudget call
    resourceMetrics,   \* trackResourcePerformance: aggregates by resource type
    resourceLog,       \* resource entries handed to the resource observer so far
    resourceSubscribed,\* the resource observer is observing
    iResult,           \* result of a stand-alone trackImageOptimization call
    options,           \* initPerformanceMonitoring: analyticsId and budget
    performanceData,   \* initPerformanceMonitoring: function from the keys that are set
    pout,              \* performanceData as passed to options.onReport by the most
                       \* recent event, in order
    readyState,        \* document.readyState
    loadListener,      \* the window 'load' listener is attached
    monitorDisconnected, \* the handle of initPerformanceMonitoring has been called
    gtagDefined, fetchDefined,   \* typeof gtag / fetch !== 'undefined'
    gtagEvents,        \* gtag('event', ...) calls of the most recent event
    sent,              \* POSTs issued by the most recent event
    inflight,          \* POSTs issued and not settled yet
    unhandled,         \* a rejection or exception reached the page
    rejected,          \* some POST has been rejected
    dInput, dResult,   \* argument and result of a stand-alone sanitizeDescription call
    uPathname, uSiteUrl, uResult \* arguments and result of a stand-alone
                                 \* generateCanonicalUrl call

vitalsVars == <<report, reportAllChanges, clsValue, clsEntries, hidden,
                subscribed, last, out, delivered, lcpPending, inputBatch,
                navigationEntries, disconnected>>

rateVars == <<rName, rValue, rRating>>

startVars == <<pc, host, thrown>>

domVars == <<domImages, domScripts>>

budgetVars == <<bReport, bBudget, bResult>>

resourceVars == <<resourceMetrics, resourceLog, resourceSubscribed>>

analyticsVars == <<gtagDefined, fetchDefined, gtagEvents, sent, inflight,
                   unhandled, rejected>>

monitorVars == <<options, performanceData, pout, readyState, loadListener,
                 monitorDisconnected>>

\* the variables of the stand-alone calls of src/lib/seo/utils.ts
seoVars == <<dInput, dResult, uPathname, uSiteUrl, uResult>>

\* the variables of the stand-alone calls
callVars == <<rateVars, startVars, paintBatch, domVars, budgetVars, iResult,
              seoVars>>

\* everything the vitals coordinator does not own
otherVars == <<callVars, resourceVars, analyticsVars, monitorVars>>

vars == <<vitalsVars, otherVars>>

----------------------------------------------------------------------------
(* Bounds *)

MaxBatch == 2      \* longest entry list one observer callback receives
MaxShifts == 2     \* layout-shift entries delivered in one session
MaxResources == 3  \* resource entries delivered in one session
MaxImages == 3     \* img elements in the document of an image audit
MaxInflight == 2   \* analytics POSTs issued and not settled at one time

----------------------------------------------------------------------------
(* Rater *)

MetricNames == {"fcp", "lcp", "fid", "cls", "ttfb", "inp"}

THRESHOLDS ==
    [fcp  |-> [good |-> 1800, poor |-> 3000],
     lcp  |-> [good |-> 2500, poor |-> 4000],
     fid  |-> [good |-> 100,  poor |-> 300],
     cls  |-> [good |-> 100,  poor |-> 250],
     ttfb |-> [good |-> 800,  poor |-> 1800],
     inp  |-> [good |-> 200,  poor |-> 500]]

rateMetricStrict(name, value) ==
    LET threshold == THRESHOLDS[name]
    IN  IF value < threshold.good THEN "good"
        ELSE IF value < threshold.poor THEN "needs-improvement"
        ELSE "poor"

rateMetric(name, value) ==
    LET threshold == THRESHOLDS[name]
    IN  IF value <= threshold.good THEN "good"
        ELSE IF value <= threshold.poor THEN "needs-improvement"
        ELSE "poor"

\* the rating is looked up in the fcp row whatever the metric
createMetricFcpRow(name, value) ==
    [name |-> name, value |-> value, rating |-> rateMetric("fcp", value)]

createMetric(name, value) ==
    [name |-> name, value |-> value, rating |-> rateMetric(name, value)]

----------------------------------------------------------------------------
(* Report object *)

IsSet(r, k) == k \in DOMAIN r

\* report[k] = m
SetKey(r, k, m) ==
    [x \in (DOMAIN r) \cup {k} |-> IF x = k THEN m ELSE r[x]]

EmptyReport == [x \in {} |-> 0]

\* the object literal {}
EmptyObject == [x \in {} |-> 0]

----------------------------------------------------------------------------
(* Inputs *)

ObserverTypes == {"paint", "largest-contentful-paint", "event", "first-input",
                  "layout-shift"}

Listeners == {"visibilitychange", "beforeunload"}

\* performance.getEntriesByType('navigation')
NavigationLists ==
    {<<>>, <<[requestStart |-> 100, responseStart |-> 901]>>}

PaintEntries ==
    { [name |-> "first-paint",            startTime |-> 1800],
      [name |-> "first-contentful-paint", startTime |-> 1800],
      [name |-> "first-contentful-paint", startTime |-> 3001] }

LcpEntries == [startTime : {2500, 4001}]

\* first-input / event entries; a field that is absent is absent from the record
InputEntries ==
    { [startTime |-> 1800, processingStart |-> 1900],
      [startTime |-> 1800, processingStart |-> 1900, duration |-> 200],
      [startTime |-> 0,    processingStart |-> 1900] }

ShiftEntries ==
    { [value |-> 50, hadRecentInput |-> FALSE],
      [value |-> 70, hadRecentInput |-> TRUE] }

Batches(S) == UNION { [1..n -> S] : n \in 0..MaxBatch }

\* the entries of one batch as a bag
BagOf(entries) ==
    [e \in {entries[i] : i \in 1..Len(entries)} |->
        Cardinality({i \in 1..Len(entries) : entries[i] = e})]

\* JavaScript truthiness of a numeric field: present and not 0
Truthy(entry, f) == f \in DOMAIN entry /\ entry[f] # 0

----------------------------------------------------------------------------
(* initWebVitalsMonitoring *)

\* hosts: each implements all observer types but the ones of one set
HostSupports ==
    { ObserverTypes \ missing :
        missing \in { {}, {"paint"}, {"largest-contentful-paint"}, {"event"},
                      {"first-input"}, {"event", "first-input"}, {"layout-shift"} } }

\* the observers whose observe() call succeeded, and the two listeners, for a
\* host that implements the observer types in supported
Subscriptions(supported) ==
    (IF "paint" \in supported THEN {"fcpObserver"} ELSE {})
    \cup (IF "largest-contentful-paint" \in supported THEN {"lcpObserver"} ELSE {})
    \cup (IF "event" \in supported \/ "first-input" \in supported
          THEN {"inputObserver"} ELSE {})
    \cup (IF "layout-shift" \in supported THEN {"clsObserver"} ELSE {})
    \cup Listeners

\* the start with ttfb taken as responseStart alone
initWebVitalsMonitoringResponseStart(supported) ==
    /\ reportAllChanges \in BOOLEAN
    /\ hidden \in BOOLEAN
    /\ subscribed = Subscriptions(supported)
    /\ clsValue = 0
    /\ clsEntries = <<>>
    /\ delivered = EmptyBag
    /\ lcpPending = FALSE
    /\ inputBatch = <<>>
    /\ last = "init"
    /\ disconnected = FALSE
    /\ navigationEntries \in NavigationLists
    /\ IF Len(navigationEntries) > 0
       THEN LET navEntry == navigationEntries[1]
                ttfb == navEntry.responseStart
            IN  /\ report = SetKey(EmptyReport, "ttfb", createMetric("ttfb", ttfb))
                /\ out = <<report>>
       ELSE /\ report = EmptyReport
            /\ out = <<>>

\* the state when initWebVitalsMonitoring returns, on a host that implements
\* the observer types in supported
initWebVitalsMonitoring(supported) ==
    /\ reportAllChanges \in BOOLEAN
    /\ hidden \in BOOLEAN
    /\ subscribed = Subscriptions(supported)
    /\ clsValue = 0
    /\ clsEntries = <<>>
    /\ delivered = EmptyBag
    /\ lcpPending = FALSE
    /\ inputBatch = <<>>
    /\ last = "init"
    /\ disconnected = FALSE
    /\ navigationEntries \in NavigationLists
    /\ IF Len(navigationEntries) > 0
       THEN LET navEntry == navigationEntries[1]
                ttfb == navEntry.responseStart - navEntry.requestStart
            IN  /\ report = SetKey(EmptyReport, "ttfb", createMetric("ttfb", ttfb))
                /\ out = <<report>>
       ELSE /\ report = EmptyReport
            /\ out = <<>>

----------------------------------------------------------------------------
(* Observer callbacks and listeners.  Each takes the entry list of one     *)
(* callback invocation and defines report' and out' (and the layout-shift  *)
(* accumulators where it owns them).                                       *)

\* entries.find(entry => entry.name === 'first-contentful-paint')
FindFcp(entries) ==
    LET hits == {i \in 1..Len(entries) : entries[i].name = "first-contentful-paint"}
    IN  IF hits = {} THEN 0
        ELSE CHOOSE i \in hits : \A j \in hits : i <= j

\* the paint callback with the visibility throttle of the LCP callback
fcpObserverThrottled(entries) ==
    LET i == FindFcp(entries)
    IN  IF i # 0
        THEN /\ report' = SetKey(report, "fcp", createMetric("fcp", entries[i].startTime))
             /\ out' = IF reportAllChanges \/ ~hidden THEN <<report'>> ELSE <<>>
        ELSE /\ report' = report
             /\ out' = <<>>

fcpObserver(entries) ==
    LET i == FindFcp(entries)
    IN  IF i # 0
        THEN /\ report' = SetKey(report, "fcp", createMetric("fcp", entries[i].startTime))
             /\ out' = <<report'>>
        ELSE /\ report' = report
             /\ out' = <<>>

\* keeps the first entry of the batch instead of the last
lcpObserverFirst(entries) ==
    IF Len(entries) > 0
    THEN LET firstEntry == entries[1]
         IN  /\ report' = SetKey(report, "lcp", createMetric("lcp", firstEntry.startTime))
             /\ out' = IF reportAllChanges \/ ~hidden THEN <<report'>> ELSE <<>>
    ELSE /\ report' = report
         /\ out' = <<>>

\* also stamps the entry's start time into report.fcp
lcpObserverStampsFcp(entries) ==
    IF Len(entries) > 0
    THEN LET lastEntry == entries[Len(entries)]
             withLcp == SetKey(report, "lcp", createMetric("lcp", lastEntry.startTime))
         IN  /\ report' = SetKey(withLcp, "fcp", createMetric("fcp", lastEntry.startTime))
             /\ out' = IF reportAllChanges \/ ~hidden THEN <<report'>> ELSE <<>>
    ELSE /\ report' = report
         /\ out' = <<>>

lcpObserver(entries) ==
    IF Len(entries) > 0
    THEN LET lastEntry == entries[Len(entries)]
         IN  /\ report' = SetKey(report, "lcp", createMetric("lcp", lastEntry.startTime))
             /\ out' = IF reportAllChanges \/ ~hidden THEN <<report'>> ELSE <<>>
    ELSE /\ report' = report
         /\ out' = <<>>

\* the loop without its processingStart && startTime test
RECURSIVE inputLoopNoGuard(_, _, _, _)
inputLoopNoGuard(entries, i, r, o) ==
    IF i > Len(entries) THEN [report |-> r, out |-> o]
    ELSE LET entry == entries[i]
             metricName == IF "duration" \in DOMAIN entry THEN "inp" ELSE "fid"
             value == IF "duration" \in DOMAIN entry THEN entry.duration
                      ELSE IF "processingStart" \in DOMAIN entry
                           THEN entry.processingStart - entry.startTime
                           ELSE 0
             r2 == SetKey(r, metricName, createMetric(metricName, value))
         IN  inputLoopNoGuard(entries, i + 1, r2, Append(o, r2))

\* the for-loop of inputObserver from entry i on; r is the report and o the
\* list of reports passed to onReport so far
RECURSIVE inputLoop(_, _, _, _)
inputLoop(entries, i, r, o) ==
    IF i > Len(entries) THEN [report |-> r, out |-> o]
    ELSE LET entry == entries[i]
         IN  IF Truthy(entry, "processingStart") /\ Truthy(entry, "startTime")
             THEN LET delay == entry.processingStart - entry.startTime
                      metricName == IF "duration" \in DOMAIN entry THEN "inp" ELSE "fid"
                      value == IF "duration" \in DOMAIN entry THEN entry.duration ELSE delay
                      r2 == SetKey(r, metricName, createMetric(metricName, value))
                  IN  inputLoop(entries, i + 1, r2, Append(o, r2))
             ELSE inputLoop(entries, i + 1, r, o)

inputObserver(entries) ==
    LET res == inputLoop(entries, 1, report, <<>>)
    IN  /\ report' = res.report
        /\ out' = res.out

\* the loop without its hadRecentInput test
RECURSIVE clsLoopNoFilter(_, _, _, _)
clsLoopNoFilter(entries, i, v, es) ==
    IF i > Len(entries) THEN [clsValue |-> v, clsEntries |-> es]
    ELSE clsLoopNoFilter(entries, i + 1, v + entries[i].value, Append(es, entries[i]))

\* the for-loop of clsObserver: the accumulators after entries i..Len(entries)
RECURSIVE clsLoop(_, _, _, _)
clsLoop(entries, i, v, es) ==
    IF i > Len(entries) THEN [clsValue |-> v, clsEntries |-> es]
    ELSE LET entry == entries[i]
         IN  IF ~entry.hadRecentInput
             THEN clsLoop(entries, i + 1, v + entry.value, Append(es, entry))
             ELSE clsLoop(entries, i + 1, v, es)

\* calls onReport whatever reportAllChanges is
clsObserverAlways(entries) ==
    LET res == clsLoop(entries, 1, clsValue, clsEntries)
    IN  /\ clsValue' = res.clsValue
        /\ clsEntries' = res.clsEntries
        /\ report' = SetKey(report, "cls", createMetric("cls", clsValue'))
        /\ out' = <<report'>>

clsObserver(entries) ==
    LET res == clsLoop(entries, 1, clsValue, clsEntries)
    IN  /\ clsValue' = res.clsValue
        /\ clsEntries' = res.clsEntries
        /\ report' = SetKey(report, "cls", createMetric("cls", clsValue'))
        /\ out' = IF reportAllChanges THEN <<report'>> ELSE <<>>

\* starts a fresh report once the final one is sent
sendFinalReportReset ==
    /\ report' = EmptyReport
    /\ out' = IF IsSet(report, "cls") THEN <<report>> ELSE <<>>

\* throttled like the layout-shift callback
sendFinalReportThrottled ==
    /\ report' = report
    /\ out' = IF IsSet(report, "cls") /\ reportAllChanges THEN <<report>> ELSE <<>>

sendFinalReport ==
    /\ report' = report
    /\ out' = IF IsSet(report, "cls") THEN <<report>> ELSE <<>>

\* an event that reaches no callback
NotDelivered ==
    /\ report' = report
    /\ out' = <<>>

----------------------------------------------------------------------------
(* Page events *)

PaintBatch ==
    \E entries \in Batches(PaintEntries) :
        /\ last' = "paint"
        /\ IF "fcpObserver" \in subscribed THEN fcpObserver(entries) ELSE NotDelivered
        /\ lcpPending' = (lcpPending /\ out' = <<>>)
        /\ inputBatch' = <<>>
        /\ UNCHANGED <<reportAllChanges, clsValue, clsEntries, hidden, subscribed,
                       delivered, navigationEntries, disconnected, otherVars>>

LcpBatch ==
    \E entries \in Batches(LcpEntries) :
        /\ last' = "largest-contentful-paint"
        /\ IF "lcpObserver" \in subscribed
           THEN lcpObserver(entries) ELSE NotDelivered
        /\ lcpPending' = (/\ out' = <<>>
                          /\ \/ lcpPending
                             \/ "lcpObserver" \in subscribed /\ Len(entries) > 0)
        /\ inputBatch' = <<>>
        /\ UNCHANGED <<reportAllChanges, clsValue, clsEntries, hidden, subscribed,
                       delivered, navigationEntries, disconnected, otherVars>>

InputBatch ==
    \E entries \in Batches(InputEntries) :
        /\ last' = "input"
        /\ IF "inputObserver" \in subscribed
           THEN inputObserver(entries) /\ inputBatch' = entries
           ELSE NotDelivered /\ inputBatch' = <<>>
        /\ lcpPending' = (lcpPending /\ out' = <<>>)
        /\ UNCHANGED <<reportAllChanges, clsValue, clsEntries, hidden, subscribed,
                       delivered, navigationEntries, disconnected, otherVars>>

LayoutShiftBatch ==
    \E entries \in Batches(ShiftEntries) :
        /\ BagCardinality(delivered) + Len(entries) <= MaxShifts
        /\ last' = "layout-shift"
        /\ IF "clsObserver" \in subscribed
           THEN /\ clsObserver(entries)
                /\ delivered' = delivered (+) BagOf(entries)
           ELSE /\ NotDelivered
                /\ UNCHANGED <<clsValue, clsEntries, delivered>>
        /\ lcpPending' = (lcpPending /\ out' = <<>>)
        /\ inputBatch' = <<>>
        /\ UNCHANGED <<reportAllChanges, hidden, subscribed, navigationEntries,
                       disconnected, otherVars>>

VisibilityChange ==
    /\ hidden' = ~hidden
    /\ last' = "visibilitychange"
    /\ IF "visibilitychange" \in subscribed THEN sendFinalReport ELSE NotDelivered
    /\ lcpPending' = (lcpPending /\ out' = <<>>)
    /\ inputBatch' = <<>>
    /\ UNCHANGED <<reportAllChanges, clsValue, clsEntries, subscribed, delivered,
                   navigationEntries, disconnected, otherVars>>

BeforeUnload ==
    /\ last' = "beforeunload"
    /\ IF "beforeunload" \in subscribed THEN sendFinalReport ELSE NotDelivered
    /\ lcpPending' = (lcpPending /\ out' = <<>>)
    /\ inputBatch' = <<>>
    /\ UNCHANGED <<reportAllChanges, clsValue, clsEntries, hidden, subscribed,
                   delivered, navigationEntries, disconnected, otherVars>>

\* the handle disconnecting the observers and leaving the listeners attached
disconnectObserversOnly ==
    /\ subscribed' = subscribed \cap Listeners
    /\ disconnected' = TRUE
    /\ last' = "disconnect"
    /\ out' = <<>>
    /\ inputBatch' = <<>>
    /\ UNCHANGED <<report, reportAllChanges, clsValue, clsEntries, hidden,
                   delivered, lcpPending, navigationEntries, otherVars>>

disconnect ==
    /\ subscribed' = {}
    /\ disconnected' = TRUE
    /\ last' = "disconnect"
    /\ out' = <<>>
    /\ inputBatch' = <<>>
    /\ UNCHANGED <<report, reportAllChanges, clsValue, clsEntries, hidden,
                   delivered, lcpPending, navigationEntries, otherVars>>

\* the step-by-step start is not part of the session: the coordinator has
\* returned, on a host that implements every observer type
NoStart ==
    /\ pc = "returned"
    /\ host = ObserverTypes
    /\ thrown = FALSE

\* no stand-alone sanitizeDescription or generateCanonicalUrl call
NoSeo ==
    /\ dInput = <<>>
    /\ dResult = <<>>
    /\ uPathname = <<>>
    /\ uSiteUrl = <<>>
    /\ uResult = <<>>

\* no stand-alone checkPerformanceBudget or trackImageOptimization call and
\* no recorded paint batch
NoCalls ==
    /\ NoSeo
    /\ paintBatch = <<>>
    /\ domImages = <<>>
    /\ domScripts = 0
    /\ bReport = EmptyReport
    /\ bBudget = EmptyObject
    /\ bResult = <<>>
    /\ iResult = <<>>

\* the session was not started by initPerformanceMonitoring: no resource
\* observer, no orchestrator state, no analytics
NoMonitor ==
    /\ resourceMetrics = EmptyObject
    /\ resourceLog = <<>>
    /\ resourceSubscribed = FALSE
    /\ options = EmptyObject
    /\ performanceData = EmptyObject
    /\ pout = <<>>
    /\ readyState = "complete"
    /\ loadListener = FALSE
    /\ monitorDisconnected = FALSE
    /\ gtagDefined = FALSE
    /\ fetchDefined = FALSE
    /\ gtagEvents = <<>>
    /\ sent = <<>>
    /\ inflight = 0
    /\ unhandled = FALSE
    /\ rejected = FALSE

\* a session on a host that implements every observer type
Init ==
    /\ initWebVitalsMonitoring(ObserverTypes)
    /\ rName = "fcp"
    /\ rValue = 0
    /\ rRating = "none"
    /\ NoStart
    /\ NoCalls
    /\ NoMonitor

Next ==
    \/ PaintBatch
    \/ LcpBatch
    \/ InputBatch
    \/ LayoutShiftBatch
    \/ VisibilityChange
    \/ BeforeUnload
    \/ disconnect

Spec == Init /\ [][Next]_vars

\* sessions on hosts that lack some observer types
InitHosts ==
    /\ \E supported \in HostSupports :
          /\ initWebVitalsMonitoring(supported)
          /\ pc = "returned"
          /\ host = supported
          /\ thrown = FALSE
    /\ rName = "fcp"
    /\ rValue = 0
    /\ rRating = "none"
    /\ NoCalls
    /\ NoMonitor

SpecHosts == InitHosts /\ [][Next]_vars

----------------------------------------------------------------------------
(* Stand-alone calls of rateMetric *)

\* every threshold of the table, the value below it and the value above it
ProbeValues ==
    {0} \cup UNION { {t - 1, t, t + 1} :
                     t \in {100, 200, 250, 300, 500, 800, 1800, 2500, 3000, 4000} }

RateInit ==
    /\ rName \in MetricNames
    /\ rValue \in ProbeValues
    /\ rRating = "none"
    /\ report = EmptyReport
    /\ reportAllChanges = FALSE
    /\ clsValue = 0
    /\ clsEntries = <<>>
    /\ hidden = FALSE
    /\ subscribed = {}
    /\ last = "init"
    /\ out = <<>>
    /\ delivered = EmptyBag
    /\ lcpPending = FALSE
    /\ inputBatch = <<>>
    /\ navigationEntries = <<>>
    /\ disconnected = FALSE
    /\ NoStart
    /\ NoCalls
    /\ NoMonitor

RateCall ==
    /\ rRating = "none"
    /\ rRating' = rateMetric(rName, rValue)
    /\ UNCHANGED <<rName, rValue, vitalsVars, startVars, paintBatch, domVars,
                   budgetVars, iResult, seoVars, resourceVars, analyticsVars,
                   monitorVars>>

RateNext == RateCall

SpecRate == RateInit /\ [][RateNext]_vars

----------------------------------------------------------------------------
(* The paint stream alone, with each batch recorded *)

PaintBatchRecorded ==
    \E entries \in Batches(PaintEntries) :
        /\ last' = "paint"
        /\ IF "fcpObserver" \in subscribed THEN fcpObserver(entries) ELSE NotDelivered
        /\ paintBatch' = entries
        /\ lcpPending' = (lcpPending /\ out' = <<>>)
        /\ inputBatch' = <<>>
        /\ UNCHANGED <<reportAllChanges, clsValue, clsEntries, hidden, subscribed,
                       delivered, navigationEntries, disconnected, rateVars,
                       startVars, domVars, budgetVars, iResult, seoVars,
                       resourceVars, analyticsVars, monitorVars>>

PaintNext ==
    \/ PaintBatchRecorded
    \/ VisibilityChange
    \/ disconnect

SpecPaint == Init /\ [][PaintNext]_vars

----------------------------------------------------------------------------
(* initWebVitalsMonitoring statement by statement.  pc names the statement  *)
(* that runs next; host is the set of observer types whose observe() call   *)
(* succeeds, every other type makes observe() throw.                        *)

StartHosts == SUBSET ObserverTypes

\* try { observer.observe({ type }) } catch (e) { console.warn(...) } with the
\* catch block removed: the exception leaves initWebVitalsMonitoring
observeUncaught(observer, type, nextPc) ==
    IF type \in host
    THEN /\ subscribed' = subscribed \cup {observer}
         /\ pc' = nextPc
         /\ thrown' = FALSE
    ELSE /\ subscribed' = subscribed
         /\ pc' = "aborted"
         /\ thrown' = TRUE

\* try { observer.observe({ type }) } catch (e) { console.warn(...) }
observeCaught(observer, type, nextPc) ==
    IF type \in host
    THEN /\ subscribed' = subscribed \cup {observer}
         /\ pc' = nextPc
         /\ thrown' = FALSE
    ELSE \* observe() throws, the catch block warns and the function goes on
         /\ subscribed' = subscribed
         /\ pc' = nextPc
         /\ thrown' = FALSE

StartInit ==
    /\ pc = "fcpObserver"
    /\ host \in StartHosts
    /\ thrown = FALSE
    /\ report = EmptyReport
    /\ reportAllChanges \in BOOLEAN
    /\ hidden \in BOOLEAN
    /\ subscribed = {}
    /\ clsValue = 0
    /\ clsEntries = <<>>
    /\ delivered = EmptyBag
    /\ lcpPending = FALSE
    /\ inputBatch = <<>>
    /\ last = "init"
    /\ out = <<>>
    /\ disconnected = FALSE
    /\ navigationEntries \in NavigationLists
    /\ rName = "fcp"
    /\ rValue = 0
    /\ rRating = "none"
    /\ NoCalls
    /\ NoMonitor

ObserveFcp ==
    /\ pc = "fcpObserver"
    /\ observeCaught("fcpObserver", "paint", "lcpObserver")
    /\ UNCHANGED <<report, out>>

ObserveLcp ==
    /\ pc = "lcpObserver"
    /\ observeCaught("lcpObserver", "largest-contentful-paint", "inputObserver")
    /\ UNCHANGED <<report, out>>

\* the outer try of the input observer: in its catch block the nested try runs
ObserveEvent ==
    /\ pc = "inputObserver"
    /\ IF "event" \in host
       THEN /\ subscribed' = subscribed \cup {"inputObserver"}
            /\ pc' = "clsObserver"
       ELSE /\ subscribed' = subscribed
            /\ pc' = "firstInput"
    /\ thrown' = FALSE
    /\ UNCHANGED <<report, out>>

ObserveFirstInput ==
    /\ pc = "firstInput"
    /\ observeCaught("inputObserver", "first-input", "clsObserver")
    /\ UNCHANGED <<report, out>>

ObserveCls ==
    /\ pc = "clsObserver"
    /\ observeCaught("clsObserver", "layout-shift", "ttfb")
    /\ UNCHANGED <<report, out>>

ComputeTtfb ==
    /\ pc = "ttfb"
    /\ IF Len(navigationEntries) > 0
       THEN LET navEntry == navigationEntries[1]
                ttfb == navEntry.responseStart - navEntry.requestStart
            IN  /\ report' = SetKey(report, "ttfb", createMetric("ttfb", ttfb))
                /\ out' = <<report'>>
       ELSE UNCHANGED <<report, out>>
    /\ pc' = "listeners"
    /\ UNCHANGED <<subscribed, thrown>>

AddListeners ==
    /\ pc = "listeners"
    /\ subscribed' = subscribed \cup Listeners
    /\ pc' = "returned"
    /\ UNCHANGED <<report, out, thrown>>

StartNext ==
    /\ \/ ObserveFcp
       \/ ObserveLcp
       \/ ObserveEvent
       \/ ObserveFirstInput
       \/ ObserveCls
       \/ ComputeTtfb
       \/ AddListeners
    /\ UNCHANGED <<reportAllChanges, clsValue, clsEntries, hidden, last, delivered,
                   lcpPending, inputBatch, navigationEntries, disconnected, host,
                   rateVars, paintBatch, domVars, budgetVars, iResult, seoVars,
                   resourceVars, analyticsVars, monitorVars>>

SpecStart == StartInit /\ [][StartNext]_vars

----------------------------------------------------------------------------
(* checkPerformanceBudget.  A violation message is the record of the parts  *)
(* of its template literal: the fixed text, the measured value, the ceiling *)
(* and the unit suffix ("ms" or none).  cls values and ceilings are in      *)
(* thousandths, as in the rater.                                            *)

\* the ceilings of the rater's 'poor' boundary in place of its 'good' boundary
DEFAULT_BUDGET_PoorCeilings ==
    [lcp |-> 4000, fid |-> 300, cls |-> 250, fcp |-> 3000, ttfb |-> 1800,
     bundleSize |-> 200000, imageCount |-> 20, scriptCount |-> 10]

DEFAULT_BUDGET ==
    [lcp |-> 2500, fid |-> 100, cls |-> 100, fcp |-> 1800, ttfb |-> 800,
     bundleSize |-> 200000, imageCount |-> 20, scriptCount |-> 10]

\* { ...base, ...over }
Spread(base, over) ==
    [k \in DOMAIN base \cup DOMAIN over |->
        IF k \in DOMAIN over THEN over[k] ELSE base[k]]

\* the comparison with >= in place of >
exceedsOrEqual(r, fullBudget, k) ==
    IsSet(r, k) /\ r[k].value >= fullBudget[k]

\* report.k && report.k.value > fullBudget.k
exceeds(r, fullBudget, k) ==
    IsSet(r, k) /\ r[k].value > fullBudget[k]

violation(text, value, ceiling, unit) ==
    [text |-> text, value |-> value, ceiling |-> ceiling, unit |-> unit]

\* passed whatever the violations are
passedAlways(violations) == TRUE

\* violations.length === 0
passedOf(violations) == Len(violations) = 0

\* reads document.querySelectorAll('img') and ('script') from the current state
checkPerformanceBudget(r, budget) ==
    LET fullBudget == Spread(DEFAULT_BUDGET, budget)
        metricCheck(k, text, unit) ==
            IF exceeds(r, fullBudget, k)
            THEN <<violation(text, r[k].value, fullBudget[k], unit)>>
            ELSE <<>>
        images == Len(domImages)
        scripts == domScripts
        violations ==
            metricCheck("lcp", "LCP exceeded budget: ", "ms")
            \o metricCheck("fid", "FID exceeded budget: ", "ms")
            \o metricCheck("cls", "CLS exceeded budget: ", "")
            \o metricCheck("fcp", "FCP exceeded budget: ", "ms")
            \o metricCheck("ttfb", "TTFB exceeded budget: ", "ms")
            \o (IF images > fullBudget.imageCount
                THEN <<violation("Too many images: ", images, fullBudget.imageCount, "")>>
                ELSE <<>>)
            \o (IF scripts > fullBudget.scriptCount
                THEN <<violation("Too many scripts: ", scripts, fullBudget.scriptCount, "")>>
                ELSE <<>>)
    IN  [passed |-> passedOf(violations), violations |-> violations]

(* Stand-alone calls of checkPerformanceBudget *)

\* measured values around the default ceilings and around the overrides below,
\* and inp values rated 'good' and 'poor'; any subset of the metrics may be
\* absent from the report
BudgetProbes ==
    [lcp  |-> {2001, 2500, 2501},
     fid  |-> {100, 101},
     cls  |-> {100, 101},
     fcp  |-> {1800, 1801},
     ttfb |-> {800, 801},
     inp  |-> {200, 501}]

\* the report that holds metric k with value pick[k], for the k with pick[k] # 0
BudgetReport(pick) ==
    [k \in {x \in DOMAIN pick : pick[x] # 0} |-> createMetric(k, pick[k])]

BudgetOverrides ==
    { EmptyObject,
      [lcp |-> 2000, cls |-> 250],
      [imageCount |-> 1, scriptCount |-> 12] }

\* an img element: alt, loading, srcset, src and currentSrc as the page gives them
PlainImage ==
    [alt |-> "", loading |-> "", srcset |-> "", src |-> <<"/a", ".jpg">>,
     currentSrc |-> <<"/a", ".jpg">>]

BudgetInit ==
    /\ \E lcp \in {0} \cup BudgetProbes.lcp, fid \in {0} \cup BudgetProbes.fid,
          cls \in {0} \cup BudgetProbes.cls, fcp \in {0} \cup BudgetProbes.fcp,
          ttfb \in {0} \cup BudgetProbes.ttfb, inp \in {0} \cup BudgetProbes.inp :
          bReport = BudgetReport([lcp |-> lcp, fid |-> fid, cls |-> cls,
                                  fcp |-> fcp, ttfb |-> ttfb, inp |-> inp])
    /\ bBudget \in BudgetOverrides
    /\ domImages \in { [i \in 1..n |-> PlainImage] : n \in {0, 2, 20, 21} }
    /\ domScripts \in {10, 11, 13}
    /\ bResult = <<>>
    /\ paintBatch = <<>>
    /\ iResult = <<>>
    /\ NoSeo
    /\ report = EmptyReport
    /\ reportAllChanges = FALSE
    /\ clsValue = 0
    /\ clsEntries = <<>>
    /\ hidden = FALSE
    /\ subscribed = {}
    /\ last = "init"
    /\ out = <<>>
    /\ delivered = EmptyBag
    /\ lcpPending = FALSE
    /\ inputBatch = <<>>
    /\ navigationEntries = <<>>
    /\ disconnected = FALSE
    /\ rName = "fcp"
    /\ rValue = 0
    /\ rRating = "none"
    /\ NoStart
    /\ NoMonitor

BudgetCall ==
    /\ bResult = <<>>
    /\ bResult' = <<checkPerformanceBudget(bReport, bBudget)>>
    /\ UNCHANGED <<bReport, bBudget, domVars, vitalsVars, rateVars, startVars,
                   paintBatch, iResult, seoVars, resourceVars, analyticsVars,
                   monitorVars>>

BudgetNext == BudgetCall

SpecBudget == BudgetInit /\ [][BudgetNext]_vars

----------------------------------------------------------------------------
(* trackResourcePerformance.  A URL is the sequence of its pieces: "?", a   *)
(* dot with the letters and digits that follow it (".css"), or any other    *)
(* run of characters.  averageLoadTime is kept as an exact fraction in      *)
(* lowest terms (the code's doubles round each division).                   *)

\* url.match(/\.(e1|e2|...)(\?|$)/) for the extensions in exts
MatchesExt(url, exts) ==
    \E i \in 1..Len(url) :
        url[i] \in exts /\ (i = Len(url) \/ url[i + 1] = "?")

getResourceType(url) ==
    IF MatchesExt(url, {".css"}) THEN "css"
    ELSE IF MatchesExt(url, {".js", ".ts"}) THEN "script"
    ELSE IF MatchesExt(url, {".jpg", ".jpeg", ".png", ".gif", ".webp", ".svg", ".avif"})
         THEN "image"
    ELSE IF MatchesExt(url, {".woff", ".woff2", ".ttf", ".eot"}) THEN "font"
    ELSE IF MatchesExt(url, {".mp4", ".webm", ".ogg", ".avi"}) THEN "video"
    ELSE "other"

RECURSIVE Gcd(_, _)
Gcd(a, b) == IF b = 0 THEN a ELSE Gcd(b, a % b)

\* the number n / d, for n >= 0 and d > 0
Frac(n, d) ==
    LET g == Gcd(n, d)
    IN  [num |-> n \div g, den |-> d \div g]

ResourceEntries ==
    { [name |-> <<"/a", ".css">>, startTime |-> 0, responseEnd |-> 100,
       transferSize |-> 5],
      [name |-> <<"/b", ".css", "?", "v=1">>, startTime |-> 50, responseEnd |-> 350,
       transferSize |-> 0],
      [name |-> <<"/app", ".js">>, startTime |-> 10, responseEnd |-> 210,
       transferSize |-> 7],
      [name |-> <<"/data", ".json">>, startTime |-> 0, responseEnd |-> 40,
       transferSize |-> 1],
      [name |-> <<"/c", ".css">>, startTime |-> 0, responseEnd |-> 900] }

\* the four assignments with the mean taken over the old mean and the new sample
updateMetricMeanOfTwo(metric, resourceEntry) ==
    LET loadTime == resourceEntry.responseEnd - resourceEntry.startTime
        count == metric.count + 1
        avg == metric.averageLoadTime
    IN  [count |-> count,
         totalSize |-> metric.totalSize
                       + (IF resourceEntry.transferSize # 0
                          THEN resourceEntry.transferSize ELSE 0),
         averageLoadTime |-> Frac(avg.num + loadTime * avg.den, avg.den * 2),
         slowest |-> IF metric.slowest >= loadTime THEN metric.slowest ELSE loadTime]

\* metric.count++; metric.totalSize += transferSize || 0;
\* metric.averageLoadTime = (averageLoadTime * (count - 1) + loadTime) / count;
\* metric.slowest = Math.max(slowest, loadTime)
updateMetric(metric, resourceEntry) ==
    LET loadTime == resourceEntry.responseEnd - resourceEntry.startTime
        count == metric.count + 1
        avg == metric.averageLoadTime
    IN  [count |-> count,
         totalSize |-> metric.totalSize
                       + (IF resourceEntry.transferSize # 0
                          THEN resourceEntry.transferSize ELSE 0),
         averageLoadTime |-> Frac(avg.num * (count - 1) + loadTime * avg.den,
                                  avg.den * count),
         slowest |-> IF metric.slowest >= loadTime THEN metric.slowest ELSE loadTime]

\* entries.forEach(...) from entry i on, metrics being resourceMetrics so far
RECURSIVE resourceLoop(_, _, _)
resourceLoop(entries, i, metrics) ==
    IF i > Len(entries) THEN metrics
    ELSE IF "transferSize" \in DOMAIN entries[i]
    THEN LET type == getResourceType(entries[i].name)
             metric == IF IsSet(metrics, type) THEN metrics[type]
                       ELSE [count |-> 0, totalSize |-> 0,
                             averageLoadTime |-> Frac(0, 1), slowest |-> 0]
         IN  resourceLoop(entries, i + 1,
                          SetKey(metrics, type, updateMetric(metric, entries[i])))
    ELSE resourceLoop(entries, i + 1, metrics)

\* a batch of resource entries drawn from S reaches the page
ResourceBatchFrom(S) ==
    \E entries \in Batches(S) :
        /\ Len(resourceLog) + Len(entries) <= MaxResources
        /\ last' = "resource"
        /\ IF resourceSubscribed
           THEN /\ resourceMetrics' = resourceLoop(entries, 1, resourceMetrics)
                /\ resourceLog' = resourceLog \o entries
           ELSE UNCHANGED <<resourceMetrics, resourceLog>>
        /\ out' = <<>>
        /\ pout' = <<>>
        /\ gtagEvents' = <<>>
        /\ sent' = <<>>
        /\ inputBatch' = <<>>
        /\ UNCHANGED <<report, reportAllChanges, clsValue, clsEntries, hidden,
                       subscribed, delivered, lcpPending, navigationEntries,
                       disconnected, callVars, resourceSubscribed, options,
                       performanceData, readyState, loadListener, monitorDisconnected,
                       gtagDefined, fetchDefined, inflight, unhandled, rejected>>

ResourceBatch == ResourceBatchFrom(ResourceEntries)

\* the disconnect of the handle trackResourcePerformance returns
resourceDisconnect ==
    /\ resourceSubscribed' = FALSE
    /\ last' = "disconnect"
    /\ UNCHANGED <<report, reportAllChanges, clsValue, clsEntries, hidden,
                   subscribed, out, delivered, lcpPending, inputBatch,
                   navigationEntries, disconnected, callVars, resourceMetrics,
                   resourceLog, analyticsVars, monitorVars>>

\* the state when trackResourcePerformance returns; resourceSubscribed is
\* false on a host whose observe({ type: 'resource' }) throws
ResourceInit ==
    /\ resourceMetrics = EmptyObject
    /\ resourceLog = <<>>
    /\ resourceSubscribed \in BOOLEAN
    /\ report = EmptyReport
    /\ reportAllChanges = FALSE
    /\ clsValue = 0
    /\ clsEntries = <<>>
    /\ hidden = FALSE
    /\ subscribed = {}
    /\ last = "init"
    /\ out = <<>>
    /\ delivered = EmptyBag
    /\ lcpPending = FALSE
    /\ inputBatch = <<>>
    /\ navigationEntries = <<>>
    /\ disconnected = FALSE
    /\ rName = "fcp"
    /\ rValue = 0
    /\ rRating = "none"
    /\ NoStart
    /\ NoCalls
    /\ options = EmptyObject
    /\ performanceData = EmptyObject
    /\ pout = <<>>
    /\ readyState = "complete"
    /\ loadListener = FALSE
    /\ monitorDisconnected = FALSE
    /\ gtagDefined = FALSE
    /\ fetchDefined = FALSE
    /\ gtagEvents = <<>>
    /\ sent = <<>>
    /\ inflight = 0
    /\ unhandled = FALSE
    /\ rejected = FALSE

ResourceNext ==
    \/ ResourceBatch
    \/ resourceDisconnect

SpecResources == ResourceInit /\ [][ResourceNext]_vars

----------------------------------------------------------------------------
(* trackImageOptimization.  An img element is the record of the properties  *)
(* the audit reads; "" and the empty URL <<>> are the falsy strings.  An     *)
(* issue is the record of the image number and the text of its message.     *)

ImageKinds ==
    { [alt |-> "", loading |-> "eager", srcset |-> "",
       src |-> <<"/a", ".jpg">>, currentSrc |-> <<"/a", ".jpg">>],
      [alt |-> "logo", loading |-> "lazy", srcset |-> "a.webp 2x",
       src |-> <<"/a", ".webp">>, currentSrc |-> <<"/a", ".webp">>],
      [alt |-> "", loading |-> "lazy", srcset |-> "a.webp 2x",
       src |-> <<"/a", ".avif">>, currentSrc |-> <<"/a", ".avif">>],
      [alt |-> "logo", loading |-> "", srcset |-> "a.webp 2x",
       src |-> <<"/a", ".webp">>, currentSrc |-> <<"/a", ".webp">>],
      [alt |-> "logo", loading |-> "lazy", srcset |-> "",
       src |-> <<"/a", ".webp">>, currentSrc |-> <<"/a", ".webp">>],
      [alt |-> "logo", loading |-> "lazy", srcset |-> "a.png 2x",
       src |-> <<"/a", ".png">>, currentSrc |-> <<"/a", ".png">>],
      [alt |-> "", loading |-> "eager", srcset |-> "",
       src |-> <<>>, currentSrc |-> <<>>],
      [alt |-> "logo", loading |-> "lazy", srcset |-> "a.avif 2x",
       src |-> <<>>, currentSrc |-> <<"/a", ".avif", "?", "w=100">>],
      [alt |-> "logo", loading |-> "lazy", srcset |-> "a.jpg 2x",
       src |-> <<"/a", ".jpg", "?", "next=b", ".webp">>,
       currentSrc |-> <<"/a", ".jpg", "?", "next=b", ".webp">>] }

\* the four checks with the format check applied to an empty source as well
imageIssuesNoSrcGuard(img, index) ==
    LET src == IF img.src # <<>> THEN img.src ELSE img.currentSrc
        issue(text) == <<[image |-> index + 1, text |-> text]>>
    IN  (IF img.alt = "" THEN issue("Missing alt text") ELSE <<>>)
        \o (IF img.loading = "" \/ img.loading # "lazy"
            THEN issue("Not using lazy loading") ELSE <<>>)
        \o (IF img.srcset = "" THEN issue("No responsive srcset") ELSE <<>>)
        \o (IF ~MatchesExt(src, {".webp", ".avif"})
            THEN issue("Not using modern format (WebP/AVIF)") ELSE <<>>)

\* the body of images.forEach((img, index) => ...), index counted from 0
imageIssues(img, index) ==
    LET src == IF img.src # <<>> THEN img.src ELSE img.currentSrc
        issue(text) == <<[image |-> index + 1, text |-> text]>>
    IN  (IF img.alt = "" THEN issue("Missing alt text") ELSE <<>>)
        \o (IF img.loading = "" \/ img.loading # "lazy"
            THEN issue("Not using lazy loading") ELSE <<>>)
        \o (IF img.srcset = "" THEN issue("No responsive srcset") ELSE <<>>)
        \o (IF src # <<>> /\ ~MatchesExt(src, {".webp", ".avif"})
            THEN issue("Not using modern format (WebP/AVIF)") ELSE <<>>)

\* images.forEach from image i on, issues being the array so far
RECURSIVE imageLoop(_, _, _)
imageLoop(images, i, issues) ==
    IF i > Len(images) THEN issues
    ELSE imageLoop(images, i + 1, issues \o imageIssues(images[i], i - 1))

\* reads document.querySelectorAll('img') from the current state
trackImageOptimization ==
    LET images == domImages
        issues == imageLoop(images, 1, <<>>)
        score == IF 100 - Len(issues) * 10 > 0 THEN 100 - Len(issues) * 10 ELSE 0
    IN  [totalImages |-> Len(images), issues |-> issues, score |-> score]

(* Stand-alone calls of trackImageOptimization *)

ImagesInit ==
    /\ domImages \in UNION { [1..n -> ImageKinds] : n \in 0..MaxImages }
    /\ domScripts = 0
    /\ iResult = <<>>
    /\ NoSeo
    /\ paintBatch = <<>>
    /\ bReport = EmptyReport
    /\ bBudget = EmptyObject
    /\ bResult = <<>>
    /\ report = EmptyReport
    /\ reportAllChanges = FALSE
    /\ clsValue = 0
    /\ clsEntries = <<>>
    /\ hidden = FALSE
    /\ subscribed = {}
    /\ last = "init"
    /\ out = <<>>
    /\ delivered = EmptyBag
    /\ lcpPending = FALSE
    /\ inputBatch = <<>>
    /\ navigationEntries = <<>>
    /\ disconnected = FALSE
    /\ rName = "fcp"
    /\ rValue = 0
    /\ rRating = "none"
    /\ NoStart
    /\ NoMonitor

ImagesCall ==
    /\ iResult = <<>>
    /\ iResult' = <<trackImageOptimization>>
    /\ UNCHANGED <<domVars, vitalsVars, rateVars, startVars, paintBatch,
                   budgetVars, seoVars, resourceVars, analyticsVars, monitorVars>>

ImagesNext == ImagesCall

SpecImages == ImagesInit /\ [][ImagesNext]_vars

----------------------------------------------------------------------------
(* sendToAnalytics and initPerformanceMonitoring.  performanceData.webVitals *)
(* is the coordinator's report object itself, so it follows every later     *)
(* change of the report; pout holds performanceData as it was at each       *)
(* options.onReport call.                                                   *)

\* Math.round(metric.value); cls values are thousandths
MathRound(k, v) == IF k = "cls" THEN (v + 500) \div 1000 ELSE v

\* what one sendToAnalytics call issues: the gtag events, one for each metric
\* of the report, and the POSTs
sendToAnalytics(r, analyticsId) ==
    [gtag  |-> IF gtagDefined /\ analyticsId # ""
               THEN { [name |-> k, event_category |-> "Web Vitals",
                       event_label |-> r[k].rating,
                       value |-> MathRound(k, r[k].value),
                       custom_parameter_1 |-> analyticsId,
                       non_interaction |-> TRUE] : k \in DOMAIN r }
               ELSE {},
     posts |-> IF fetchDefined
               THEN << [url |-> "/api/analytics/web-vitals", method |-> "POST",
                        body |-> r] >>
               ELSE <<>>]

\* performanceData after the callback of initPerformanceMonitoring ran for r
callbackData(pd, r) ==
    SetKey(SetKey(pd, "webVitals", r),
           "budgetCheck", checkPerformanceBudget(r, options.budget))

\* sendToAnalytics called whether or not options.analyticsId is given
analyticsCallsAlways(rs) ==
    [i \in 1..Len(rs) |-> sendToAnalytics(rs[i], options.analyticsId)]

\* what the callback hands to sendToAnalytics for the reports rs, call by call
analyticsCalls(rs) ==
    [i \in 1..Len(rs) |->
        IF options.analyticsId # ""
        THEN sendToAnalytics(rs[i], options.analyticsId)
        ELSE [gtag |-> {}, posts |-> <<>>]]

\* the POSTs of the calls cs, in order
RECURSIVE postsOf(_, _)
postsOf(cs, i) ==
    IF i > Len(cs) THEN <<>> ELSE cs[i].posts \o postsOf(cs, i + 1)

\* performanceData with webVitals following the report object
Alias(pd, r) == IF IsSet(pd, "webVitals") THEN SetKey(pd, "webVitals", r) ELSE pd

\* the orchestrator's share of an event in which the coordinator called
\* onReport with the reports rs, in order, and left its report as r
Forward(rs, r) ==
    LET cs == analyticsCalls(rs)
    IN  /\ pout' = [i \in 1..Len(rs) |-> callbackData(performanceData, rs[i])]
        /\ performanceData' = IF Len(rs) > 0
                              THEN Alias(callbackData(performanceData, rs[Len(rs)]), r)
                              ELSE Alias(performanceData, r)
        /\ gtagEvents' = [i \in 1..Len(rs) |-> cs[i].gtag]
        /\ sent' = postsOf(cs, 1)
        /\ inflight' = inflight + Len(sent')
        /\ inflight' <= MaxInflight

\* the options and the page's globals: without an analyticsId
\* sendToAnalytics is never called, whatever the globals are
MonitorSetups ==
    { [options |-> [analyticsId |-> "", budget |-> EmptyObject],
       gtag |-> TRUE, fetch |-> TRUE],
      [options |-> [analyticsId |-> "", budget |-> [fcp |-> 3001]],
       gtag |-> TRUE, fetch |-> TRUE],
      [options |-> [analyticsId |-> "G-1", budget |-> EmptyObject],
       gtag |-> TRUE, fetch |-> TRUE],
      [options |-> [analyticsId |-> "G-1", budget |-> EmptyObject],
       gtag |-> FALSE, fetch |-> TRUE],
      [options |-> [analyticsId |-> "G-1", budget |-> EmptyObject],
       gtag |-> TRUE, fetch |-> FALSE] }

\* the entries the streams deliver in an orchestrated session
MonitorPaintEntries ==
    { [name |-> "first-contentful-paint", startTime |-> 1800],
      [name |-> "first-contentful-paint", startTime |-> 3001] }

MonitorShiftEntries ==
    { [value |-> 50, hadRecentInput |-> FALSE] }

MonitorResourceEntries ==
    { [name |-> <<"/a", ".css">>, startTime |-> 0, responseEnd |-> 100,
       transferSize |-> 5] }

\* the state when initPerformanceMonitoring returns
MonitorInit ==
    /\ initWebVitalsMonitoring(ObserverTypes)
    /\ reportAllChanges = FALSE
    /\ hidden = FALSE
    /\ \E setup \in MonitorSetups :
          /\ options = setup.options
          /\ gtagDefined = setup.gtag
          /\ fetchDefined = setup.fetch
    /\ domImages = <<PlainImage>>
    /\ domScripts = 1
    /\ readyState \in {"loading", "complete"}
    /\ LET cs == analyticsCalls(out)
           pd == IF Len(out) > 0 THEN callbackData(EmptyObject, out[Len(out)])
                 ELSE EmptyObject
       IN  /\ pout = [i \in 1..Len(out) |-> callbackData(EmptyObject, out[i])]
           /\ gtagEvents = [i \in 1..Len(out) |-> cs[i].gtag]
           /\ sent = postsOf(cs, 1)
           /\ inflight = Len(sent)
           /\ IF readyState = "complete"
              THEN /\ performanceData =
                          SetKey(pd, "imageOptimization", trackImageOptimization)
                   /\ loadListener = FALSE
              ELSE /\ performanceData = pd
                   /\ loadListener = TRUE
    /\ resourceMetrics = EmptyObject
    /\ resourceLog = <<>>
    /\ resourceSubscribed = TRUE
    /\ monitorDisconnected = FALSE
    /\ unhandled = FALSE
    /\ rejected = FALSE
    /\ rName = "fcp"
    /\ rValue = 0
    /\ rRating = "none"
    /\ NoStart
    /\ paintBatch = <<>>
    /\ bReport = EmptyReport
    /\ bBudget = EmptyObject
    /\ bResult = <<>>
    /\ iResult = <<>>
    /\ NoSeo

MonitorPaintBatch ==
    \E entries \in Batches(MonitorPaintEntries) :
        /\ last' = "paint"
        /\ IF "fcpObserver" \in subscribed THEN fcpObserver(entries) ELSE NotDelivered
        /\ Forward(out', report')
        /\ UNCHANGED <<reportAllChanges, clsValue, clsEntries, hidden, subscribed,
                       delivered, lcpPending, inputBatch, navigationEntries,
                       disconnected, callVars, resourceVars, options, readyState,
                       loadListener, monitorDisconnected, gtagDefined,
                       fetchDefined, unhandled, rejected>>

MonitorLayoutShiftBatch ==
    \E entries \in Batches(MonitorShiftEntries) :
        /\ BagCardinality(delivered) + Len(entries) <= MaxShifts
        /\ last' = "layout-shift"
        /\ IF "clsObserver" \in subscribed
           THEN /\ clsObserver(entries)
                /\ delivered' = delivered (+) BagOf(entries)
           ELSE /\ NotDelivered
                /\ UNCHANGED <<clsValue, clsEntries, delivered>>
        /\ Forward(out', report')
        /\ UNCHANGED <<reportAllChanges, hidden, subscribed, lcpPending, inputBatch,
                       navigationEntries, disconnected, callVars, resourceVars,
                       options, readyState, loadListener, monitorDisconnected,
                       gtagDefined, fetchDefined, unhandled, rejected>>

MonitorBeforeUnload ==
    /\ last' = "beforeunload"
    /\ IF "beforeunload" \in subscribed THEN sendFinalReport ELSE NotDelivered
    /\ Forward(out', report')
    /\ UNCHANGED <<reportAllChanges, clsValue, clsEntries, hidden, subscribed,
                   delivered, lcpPending, inputBatch, navigationEntries,
                   disconnected, callVars, resourceVars, options, readyState,
                   loadListener, monitorDisconnected, gtagDefined, fetchDefined,
                   unhandled, rejected>>

MonitorResourceBatch == ResourceBatchFrom(MonitorResourceEntries)

\* the window 'load' event
WindowLoad ==
    /\ readyState = "loading"
    /\ readyState' = "complete"
    /\ last' = "load"
    /\ IF loadListener
       THEN /\ performanceData' =
                   SetKey(performanceData, "imageOptimization", trackImageOptimization)
            /\ pout' = <<performanceData'>>
       ELSE /\ performanceData' = performanceData
            /\ pout' = <<>>
    /\ out' = <<>>
    /\ gtagEvents' = <<>>
    /\ sent' = <<>>
    /\ UNCHANGED <<report, reportAllChanges, clsValue, clsEntries, hidden,
                   subscribed, delivered, lcpPending, inputBatch,
                   navigationEntries, disconnected, callVars, resourceVars,
                   options, loadListener, monitorDisconnected, gtagDefined,
                   fetchDefined, inflight, unhandled, rejected>>

\* the disconnect of the handle initPerformanceMonitoring returns
monitorDisconnect ==
    /\ subscribed' = {}
    /\ disconnected' = TRUE
    /\ resourceSubscribed' = FALSE
    /\ monitorDisconnected' = TRUE
    /\ last' = "disconnect"
    /\ out' = <<>>
    /\ pout' = <<>>
    /\ gtagEvents' = <<>>
    /\ sent' = <<>>
    /\ UNCHANGED <<report, reportAllChanges, clsValue, clsEntries, hidden,
                   delivered, lcpPending, inputBatch, navigationEntries, callVars,
                   resourceMetrics, resourceLog, options, performanceData,
                   readyState, loadListener, gtagDefined, fetchDefined, inflight,
                   unhandled, rejected>>

\* the promise of one POST is fulfilled
PostResolves ==
    /\ inflight > 0
    /\ inflight' = inflight - 1
    /\ last' = "post-resolved"
    /\ out' = <<>>
    /\ pout' = <<>>
    /\ gtagEvents' = <<>>
    /\ sent' = <<>>
    /\ UNCHANGED <<report, reportAllChanges, clsValue, clsEntries, hidden,
                   subscribed, delivered, lcpPending, inputBatch,
                   navigationEntries, disconnected, callVars, resourceVars,
                   options, performanceData, readyState, loadListener,
                   monitorDisconnected, gtagDefined, fetchDefined, unhandled,
                   rejected>>

\* a catch handler that sends the POST again
PostRejectsRetry ==
    /\ inflight > 0
    /\ inflight' = inflight
    /\ rejected' = TRUE
    /\ last' = "post-rejected"
    /\ out' = <<>>
    /\ pout' = <<>>
    /\ gtagEvents' = <<>>
    /\ sent' = << [url |-> "/api/analytics/web-vitals", method |-> "POST",
                   body |-> report] >>
    /\ UNCHANGED <<report, reportAllChanges, clsValue, clsEntries, hidden,
                   subscribed, delivered, lcpPending, inputBatch,
                   navigationEntries, disconnected, callVars, resourceVars,
                   options, performanceData, readyState, loadListener,
                   monitorDisconnected, gtagDefined, fetchDefined, unhandled>>

\* the promise of one POST is rejected: .catch(() => {}) handles the
\* rejection and does nothing
PostRejects ==
    /\ inflight > 0
    /\ inflight' = inflight - 1
    /\ rejected' = TRUE
    /\ last' = "post-rejected"
    /\ out' = <<>>
    /\ pout' = <<>>
    /\ gtagEvents' = <<>>
    /\ sent' = <<>>
    /\ UNCHANGED <<report, reportAllChanges, clsValue, clsEntries, hidden,
                   subscribed, delivered, lcpPending, inputBatch,
                   navigationEntries, disconnected, callVars, resourceVars,
                   options, performanceData, readyState, loadListener,
                   monitorDisconnected, gtagDefined, fetchDefined, unhandled>>

MonitorNext ==
    \/ MonitorPaintBatch
    \/ MonitorLayoutShiftBatch
    \/ MonitorBeforeUnload
    \/ MonitorResourceBatch
    \/ WindowLoad
    \/ monitorDisconnect
    \/ PostResolves
    \/ PostRejects

SpecMonitor == MonitorInit /\ [][MonitorNext]_vars

-----------------------------------------------------------------------------
(* src/lib/seo/utils.ts: sanitizeDescription and generateCanonicalUrl.  A   *)
(* string is the sequence of its characters (UTF-16 code units), so its     *)
(* length is Len and the character at index i of the code is element i + 1. *)

\* no coordinator session and no call into performance.ts
NoPerformance ==
    /\ report = EmptyReport
    /\ reportAllChanges = FALSE
    /\ clsValue = 0
    /\ clsEntries = <<>>
    /\ hidden = FALSE
    /\ subscribed = {}
    /\ last = "init"
    /\ out = <<>>
    /\ delivered = EmptyBag
    /\ lcpPending = FALSE
    /\ inputBatch = <<>>
    /\ navigationEntries = <<>>
    /\ disconnected = FALSE
    /\ rName = "fcp"
    /\ rValue = 0
    /\ rRating = "none"
    /\ paintBatch = <<>>
    /\ domImages = <<>>
    /\ domScripts = 0
    /\ bReport = EmptyReport
    /\ bBudget = EmptyObject
    /\ bResult = <<>>
    /\ iResult = <<>>
    /\ NoStart
    /\ NoMonitor

\* s.substring(from, to) for 0 <= from <= to
substring(s, from, to) ==
    SubSeq(s, from + 1, IF to < Len(s) THEN to ELSE Len(s))

\* s.lastIndexOf(c): the greatest index of c in s, -1 when there is none
lastIndexOf(s, c) ==
    LET found == { i \in 0..(Len(s) - 1) : s[i + 1] = c }
    IN  IF found = {} THEN -1
        ELSE CHOOSE i \in found : \A j \in found : j <= i

\* s.replace(/<[^>]*>/g, '') from element i on: the next match starts at the
\* first '<' that has a '>' somewhere after it and ends at the first such '>'
RECURSIVE replaceTags(_, _)
replaceTags(s, i) ==
    LET opens == { k \in i..Len(s) :
                     s[k] = "<" /\ \E j \in (k + 1)..Len(s) : s[j] = ">" }
    IN  IF opens = {} THEN SubSeq(s, i, Len(s))
        ELSE LET open == CHOOSE k \in opens : \A m \in opens : k <= m
                 close == CHOOSE j \in (open + 1)..Len(s) :
                              /\ s[j] = ">"
                              /\ \A m \in (open + 1)..(j - 1) : s[m] # ">"
             IN  SubSeq(s, i, open - 1) \o replaceTags(s, close + 1)

\* the white space characters that occur in the inputs
WhiteSpace == {" ", "\n", "\t"}

\* s.trim()
trim(s) ==
    LET kept == { i \in 1..Len(s) : s[i] \notin WhiteSpace }
    IN  IF kept = {} THEN <<>>
        ELSE SubSeq(s, CHOOSE i \in kept : \A j \in kept : i <= j,
                       CHOOSE i \in kept : \A j \in kept : j <= i)

\* truncates at 160 characters before the ellipsis is appended
sanitizeDescriptionCutAt160(description) ==
    LET cleaned == trim(replaceTags(description, 1))
    IN  IF Len(cleaned) <= 160 THEN cleaned
        ELSE LET truncated == substring(cleaned, 0, 160)
                 lastSentence == lastIndexOf(truncated, ".")
             IN  IF lastSentence > 100
                 THEN substring(truncated, 0, lastSentence + 1)
                 ELSE truncated \o <<".", ".", ".">>

sanitizeDescription(description) ==
    LET cleaned == trim(replaceTags(description, 1))
    IN  IF Len(cleaned) <= 160 THEN cleaned
        ELSE LET truncated == substring(cleaned, 0, 157)
                 lastSentence == lastIndexOf(truncated, ".")
             IN  IF lastSentence > 100
                 THEN substring(truncated, 0, lastSentence + 1)
                 ELSE truncated \o <<".", ".", ".">>

(* Stand-alone calls of sanitizeDescription *)

\* n characters, a '.' at the indices in dots and a letter elsewhere
Text(n, dots) == [i \in 1..n |-> IF (i - 1) \in dots THEN "." ELSE "a"]

\* text lengths around the limit of 160 and the cut at 157
TextLengths == {0, 1, 101, 102, 157, 160, 161, 162, 200}

\* indices of '.' around the index 100, the cut at 157 and the limit of 160
DotIndices == {50, 100, 101, 156, 157, 160}

\* the text as it is, in white space, in a tag pair, around an inner tag whose
\* name has a '.', after a '>' and before a '<' that closes nothing, and with
\* white space between the tags and the text
Decorations(text) ==
    { text,
      <<" ", "\n">> \o text \o <<"\t", " ">>,
      <<"<", "p", ">">> \o text \o <<"<", "/", "p", ">">>,
      SubSeq(text, 1, Len(text) \div 2) \o <<"<", "a", ".", "b", ">">>
          \o SubSeq(text, Len(text) \div 2 + 1, Len(text)),
      <<">">> \o text \o <<"<">>,
      <<"<", "p", ">", " ">> \o text \o <<" ", "<", "b", "r", ">", " ">> }

DescriptionInit ==
    /\ \E n \in TextLengths, dots \in SUBSET DotIndices :
          dInput \in Decorations(Text(n, dots))
    /\ dResult = <<>>
    /\ uPathname = <<>>
    /\ uSiteUrl = <<>>
    /\ uResult = <<>>
    /\ NoPerformance

DescriptionCall ==
    /\ dResult = <<>>
    /\ dResult' = <<sanitizeDescription(dInput)>>
    /\ UNCHANGED <<dInput, uPathname, uSiteUrl, uResult, vitalsVars, rateVars,
                   startVars, paintBatch, domVars, budgetVars, iResult,
                   resourceVars, analyticsVars, monitorVars>>

DescriptionNext == DescriptionCall

SpecDescription == DescriptionInit /\ [][DescriptionNext]_vars

-----------------------------------------------------------------------------
(* Stand-alone calls of generateCanonicalUrl *)

\* the longest pathname, in characters
MaxPathLen == 4

\* pathname.replace(/\/$/, ''): one '/' at the end of the string is removed
replaceTrailingSlash(s) ==
    IF Len(s) > 0 /\ s[Len(s)] = "/" THEN SubSeq(s, 1, Len(s) - 1) ELSE s

generateCanonicalUrl(pathname, siteUrl) ==
    LET cleanPath == IF pathname = <<"/">> THEN <<>>
                     ELSE replaceTrailingSlash(pathname)
    IN  siteUrl \o cleanPath

\* URL pathnames: a '/' followed by letters and slashes
Pathnames ==
    { <<"/">> \o rest :
        rest \in UNION { [1..n -> {"/", "a", "b"}] : n \in 0..(MaxPathLen - 1) } }

SiteUrls ==
    { <<"h", "t", "t", "p", "s", ":", "/", "/", "t", ".", "c", "o">>,
      <<"h", "t", "t", "p", ":", "/", "/", "t", ".", "c", "o", "/">> }

CanonicalInit ==
    /\ uPathname \in Pathnames
    /\ uSiteUrl \in SiteUrls
    /\ uResult = <<>>
    /\ dInput = <<>>
    /\ dResult = <<>>
    /\ NoPerformance

CanonicalCall ==
    /\ uResult = <<>>
    /\ uResult' = <<generateCanonicalUrl(uPathname, uSiteUrl)>>
    /\ UNCHANGED <<uPathname, uSiteUrl, dInput, dResult, vitalsVars, rateVars,
                   startVars, paintBatch, domVars, budgetVars, iResult,
                   resourceVars, analyticsVars, monitorVars>>

CanonicalNext == CanonicalCall

SpecCanonical == CanonicalInit /\ [][CanonicalNext]_vars

----------------------------------------------------------------------------
(* Properties *)

\* C1: for each of the six metric names and every value, rateMetric returns
\* "good" up to and including the good ceiling, "needs-improvement" above it
\* up to and including the poor ceiling, and "poor" above the poor ceiling,
\* with the ceilings FCP 1800/3000, LCP 2500/4000, FID 100/300,
\* CLS 0.1/0.25 (100/250 thousandths), TTFB 800/1800, INP 200/500.
C1_RateMetricBands ==
    rRating # "none" =>
        LET good == CASE rName = "fcp"  -> 1800
                      [] rName = "lcp"  -> 2500
                      [] rName = "fid"  -> 100
                      [] rName = "cls"  -> 100
                      [] rName = "ttfb" -> 800
                      [] rName = "inp"  -> 200
            poor == CASE rName = "fcp"  -> 3000
                      [] rName = "lcp"  -> 4000
                      [] rName = "fid"  -> 300
                      [] rName = "cls"  -> 250
                      [] rName = "ttfb" -> 1800
                      [] rName = "inp"  -> 500
        IN  /\ rValue <= good => rRating = "good"
            /\ (good < rValue /\ rValue <= poor) => rRating = "needs-improvement"
            /\ rValue > poor => rRating = "poor"

C1_Witness ==
    rName = "lcp" /\ rValue = 4000 /\ rRating = "needs-improvement"

\* C2: a report key that is set stays set in every later state: no stream
\* event, finalizer event or disconnect removes a key.
C2_KeysNeverRemoved ==
    [][\A k \in MetricNames : IsSet(report, k) => IsSet(report', k)]_vars

C2_Witness ==
    /\ last = "disconnect"
    /\ DOMAIN report = MetricNames

\* C3: every metric stored in the report under key k has name k and the
\* rating rateMetric gives for k and its value.
C3_StoredMetricConsistent ==
    \A k \in DOMAIN report :
        /\ k \in MetricNames
        /\ report[k].name = k
        /\ report[k].rating = rateMetric(k, report[k].value)

C3_Witness ==
    /\ DOMAIN report = MetricNames
    /\ report["lcp"].rating = "good"
    /\ report["fcp"].rating = "poor"
    /\ report["cls"].value = 100
    /\ report["cls"].rating = "good"

C5_ClsCallbackIffReportAllChanges ==
    (last = "layout-shift" /\ "clsObserver" \in subscribed) =>
        /\ IsSet(report, "cls")
        /\ report["cls"].value = clsValue
        /\ reportAllChanges => out = <<report>>
        /\ ~reportAllChanges => out = <<>>

C5_Witness ==
    /\ last = "layout-shift"
    /\ "clsObserver" \in subscribed
    /\ ~reportAllChanges
    /\ BagCardinality(delivered) > 0
    /\ report["cls"].value = 50
    /\ out = <<>>

\* C6: a page-hidden or unload event delivered while the listeners are
\* attached calls onReport exactly once, with the report holding the current
\* cls metric, when report.cls is set (whatever reportAllChanges is), and
\* does not call it when report.cls has never been set.
C6_FinalizerEmitsIffClsSet ==
    ((last = "beforeunload" \/ (last = "visibilitychange" /\ hidden))
        /\ last \in subscribed) =>
        IF IsSet(report, "cls")
        THEN out = <<report>> /\ out[1]["cls"].value = clsValue
        ELSE out = <<>>

C6_Witness ==
    /\ last = "visibilitychange"
    /\ hidden
    /\ last \in subscribed
    /\ ~reportAllChanges
    /\ IsSet(report, "cls")
    /\ out = <<report>>

\* C7: a visibility change back to visible never calls onReport.
C7_VisibleNeverEmits ==
    (last = "visibilitychange" /\ ~hidden) => out = <<>>

\* C8: a non-empty largest-contentful-paint batch overwrites report.lcp with
\* the startTime of its last entry and calls onReport (once) if and only if
\* reportAllChanges is true or the page is visible; an empty batch changes
\* nothing and calls nothing.
C8_LcpLastEntryAndThrottle ==
    [][(last' = "largest-contentful-paint" /\ "lcpObserver" \in subscribed) =>
       \A entries \in Batches(LcpEntries) :
          lcpObserver(entries) =>
              IF Len(entries) = 0
              THEN report' = report /\ out' = <<>>
              ELSE /\ IsSet(report', "lcp")
                   /\ report'["lcp"].value = entries[Len(entries)].startTime
                   /\ \A k \in DOMAIN report' \ {"lcp"} :
                          IsSet(report, k) /\ report'[k] = report[k]
                   /\ (reportAllChanges \/ ~hidden) => out' = <<report'>>
                   /\ ~(reportAllChanges \/ ~hidden) => out' = <<>>]_vars

C8_Witness ==
    /\ last = "largest-contentful-paint"
    /\ "lcpObserver" \in subscribed
    /\ hidden
    /\ ~reportAllChanges
    /\ IsSet(report, "lcp")
    /\ lcpPending
    /\ out = <<>>

\* C9: an LCP value whose callback was suppressed is carried to onReport by
\* the next page-hidden or unload event: after such an event no LCP value is
\* left that onReport has not received.
C9_FinalizerDeliversSuppressedLcp ==
    ((last = "beforeunload" \/ (last = "visibilitychange" /\ hidden))
        /\ last \in subscribed) => ~lcpPending

\* C10 as stated: every entry of an input batch calls onReport once, so a
\* batch of n entries gives n calls.
C10_OneCallPerEntry ==
    (last = "input" /\ "inputObserver" \in subscribed) =>
        Len(out) = Len(inputBatch)

\* C10 amended: the entries of an input batch whose processingStart and
\* startTime are both present and non-zero are handled in order, each calling
\* onReport once with report.inp set to its duration when it has a duration
\* field and report.fid set to processingStart - startTime when it has none;
\* every other entry is skipped without a call.
C10_OneCallPerQualifyingEntry ==
    (last = "input" /\ "inputObserver" \in subscribed) =>
        LET q == {i \in 1..Len(inputBatch) :
                     /\ Truthy(inputBatch[i], "processingStart")
                     /\ Truthy(inputBatch[i], "startTime")}
        IN  /\ Len(out) = Cardinality(q)
            /\ \A i \in q :
                  LET n == Cardinality({j \in q : j <= i})
                      e == inputBatch[i]
                  IN  IF "duration" \in DOMAIN e
                      THEN /\ IsSet(out[n], "inp")
                           /\ out[n]["inp"].value = e.duration
                      ELSE /\ IsSet(out[n], "fid")
                           /\ out[n]["fid"].value = e.processingStart - e.startTime
            /\ q # {} => report = out[Len(out)]

C10_Witness ==
    /\ last = "input"
    /\ "inputObserver" \in subscribed
    /\ Len(inputBatch) = 2
    /\ Len(out) = 2
    /\ IsSet(out[1], "fid") /\ ~IsSet(out[1], "inp")
    /\ IsSet(out[2], "inp") /\ out[2]["inp"].value = 200
    /\ report = out[2]

\* C11: the coordinator computes ttfb once, before it returns: with a
\* navigation record, report.ttfb.value is responseStart - requestStart of the
\* first record in every state of the session and the start called onReport
\* exactly once with it; without a record report.ttfb is unset in every state
\* and the start called nothing.
C11_TtfbComputedOnceAtStart ==
    IF Len(navigationEntries) > 0
    THEN /\ IsSet(report, "ttfb")
         /\ report["ttfb"].value =
                navigationEntries[1].responseStart - navigationEntries[1].requestStart
         /\ last = "init" => out = <<report>>
    ELSE /\ ~IsSet(report, "ttfb")
         /\ last = "init" => out = <<>>

C11_Witness ==
    /\ last = "beforeunload"
    /\ Len(navigationEntries) > 0
    /\ IsSet(report, "fcp")
    /\ IsSet(report, "cls")
    /\ out = <<report>>
    /\ report["ttfb"].value = 801

\* C12: a delivered paint batch that holds a first-contentful-paint entry
\* sets report.fcp to the startTime of (the first) such entry, whatever
\* report.fcp held before, leaves every other key as it was and calls
\* onReport exactly once, whatever document.hidden and reportAllChanges are;
\* a batch without such an entry leaves the report unchanged and calls nothing.
C12_PaintBatchSetsFcp ==
    [][(last' = "paint" /\ "fcpObserver" \in subscribed) =>
       LET q == {i \in 1..Len(paintBatch') :
                    paintBatch'[i].name = "first-contentful-paint"}
       IN  IF q = {}
           THEN report' = report /\ out' = <<>>
           ELSE LET first == CHOOSE i \in q : \A j \in q : i <= j
                IN  /\ IsSet(report', "fcp")
                    /\ report'["fcp"].value = paintBatch'[first].startTime
                    /\ \A k \in DOMAIN report' \ {"fcp"} :
                           IsSet(report, k) /\ report'[k] = report[k]
                    /\ out' = <<report'>>]_vars

C12_Witness ==
    /\ last = "paint"
    /\ "fcpObserver" \in subscribed
    /\ hidden
    /\ ~reportAllChanges
    /\ paintBatch = << [name |-> "first-paint", startTime |-> 1800],
                       [name |-> "first-contentful-paint", startTime |-> 3001] >>
    /\ report["fcp"].value = 3001
    /\ out = <<report>>

\* C13: whatever set of observer types the host implements, the start never
\* lets an exception out and, once it has returned, every observer whose type
\* the host implements is observing (the input observer when the host
\* implements 'event' or, failing that, 'first-input'), both lifecycle
\* listeners are attached and ttfb was computed and reported if a navigation
\* record exists.
C13_StartSurvivesUnsupportedTypes ==
    /\ ~thrown
    /\ pc # "aborted"
    /\ pc = "returned" =>
          /\ "fcpObserver" \in subscribed <=> "paint" \in host
          /\ "lcpObserver" \in subscribed <=> "largest-contentful-paint" \in host
          /\ "inputObserver" \in subscribed <=>
                 ("event" \in host \/ "first-input" \in host)
          /\ "clsObserver" \in subscribed <=> "layout-shift" \in host
          /\ Listeners \subseteq subscribed
          /\ Len(navigationEntries) > 0 =>
                 (IsSet(report, "ttfb") /\ out = <<report>>)

C13_Witness ==
    /\ pc = "returned"
    /\ host = {"first-input"}
    /\ subscribed = {"inputObserver"} \cup Listeners
    /\ IsSet(report, "ttfb")
    /\ out = <<report>>

\* C14: once the disconnect handle has been called, no page event of any of
\* the six kinds and no further disconnect call changes the report or calls
\* onReport.
C14_NothingAfterDisconnect ==
    [][disconnected => (report' = report /\ out' = <<>>)]_vars

C14_Witness ==
    /\ disconnected
    /\ last = "beforeunload"
    /\ IsSet(report, "cls")
    /\ IsSet(report, "lcp")
    /\ out = <<>>

\* C16: the violations checkPerformanceBudget returns are, in the order LCP,
\* FID, CLS, FCP, TTFB, image count, script count, exactly the checks whose
\* measured value is strictly greater than the ceiling, the ceiling being the
\* caller's override when the budget argument gives one and otherwise the
\* default (2500, 100, 0.1 = 100 thousandths, 1800, 800, 20 images, 10
\* scripts); each message carries the measured value and the ceiling.
C16_ViolationsInCheckOrder ==
    bResult # <<>> =>
        LET checks ==
                << [text |-> "LCP exceeded budget: ",  key |-> "lcp",  default |-> 2500],
                   [text |-> "FID exceeded budget: ",  key |-> "fid",  default |-> 100],
                   [text |-> "CLS exceeded budget: ",  key |-> "cls",  default |-> 100],
                   [text |-> "FCP exceeded budget: ",  key |-> "fcp",  default |-> 1800],
                   [text |-> "TTFB exceeded budget: ", key |-> "ttfb", default |-> 800],
                   [text |-> "Too many images: ",  key |-> "imageCount",  default |-> 20],
                   [text |-> "Too many scripts: ", key |-> "scriptCount", default |-> 10] >>
            ceiling(c) == IF c.key \in DOMAIN bBudget THEN bBudget[c.key] ELSE c.default
            measurable(c) == c.key \in {"imageCount", "scriptCount"} \/ IsSet(bReport, c.key)
            measured(c) == CASE c.key = "imageCount"  -> Len(domImages)
                             [] c.key = "scriptCount" -> domScripts
                             [] OTHER                 -> bReport[c.key].value
            over(c) == measurable(c) /\ measured(c) > ceiling(c)
            expected == SelectSeq(checks, over)
            violations == bResult[1].violations
        IN  /\ Len(violations) = Len(expected)
            /\ \A i \in 1..Len(expected) :
                  /\ violations[i].text = expected[i].text
                  /\ violations[i].value = measured(expected[i])
                  /\ violations[i].ceiling = ceiling(expected[i])

C16_Witness ==
    /\ bResult # <<>>
    /\ bBudget = [lcp |-> 2000, cls |-> 250]
    /\ IsSet(bReport, "lcp") /\ bReport["lcp"].value = 2001
    /\ IsSet(bReport, "fid") /\ bReport["fid"].value = 100
    /\ IsSet(bReport, "cls") /\ bReport["cls"].value = 101
    /\ IsSet(bReport, "ttfb") /\ bReport["ttfb"].value = 801
    /\ Len(domImages) = 21
    /\ domScripts = 10
    /\ Len(bResult[1].violations) = 3
    /\ bResult[1].violations[1].text = "LCP exceeded budget: "
    /\ bResult[1].violations[2].text = "TTFB exceeded budget: "
    /\ bResult[1].violations[3] =
           [text |-> "Too many images: ", value |-> 21, ceiling |-> 20, unit |-> ""]

\* C17: passed is true exactly when the violations list is empty; no
\* violation names a metric that the report does not hold; and the empty
\* report under the default budget passes whenever the page has at most 20
\* img elements and at most 10 script elements.
C17_PassedIffNoViolations ==
    bResult # <<>> =>
        LET violations == bResult[1].violations
            keyOf(text) == CASE text = "LCP exceeded budget: "  -> "lcp"
                             [] text = "FID exceeded budget: "  -> "fid"
                             [] text = "CLS exceeded budget: "  -> "cls"
                             [] text = "FCP exceeded budget: "  -> "fcp"
                             [] text = "TTFB exceeded budget: " -> "ttfb"
                             [] OTHER -> "dom"
        IN  /\ bResult[1].passed <=> (Len(violations) = 0)
            /\ \A i \in 1..Len(violations) :
                  keyOf(violations[i].text) # "dom" =>
                      IsSet(bReport, keyOf(violations[i].text))
            /\ (/\ bReport = EmptyReport
                /\ bBudget = EmptyObject
                /\ Len(domImages) <= 20
                /\ domScripts <= 10) => bResult[1].passed

C17_Witness ==
    /\ bResult # <<>>
    /\ bReport = EmptyReport
    /\ bBudget = EmptyObject
    /\ Len(domImages) = 20
    /\ domScripts = 10
    /\ bResult[1].passed
    /\ bResult[1].violations = <<>>

\* C18: for each resource type, the aggregate is absent when no delivered
\* entry with a transferSize field has that type, and otherwise holds, over
\* the delivered entries of that type that have the field: count = their
\* number, totalSize = the sum of their transfer sizes, averageLoadTime = the
\* arithmetic mean of their load times responseEnd - startTime, slowest =
\* the largest load time.  Entries of another type and entries without
\* transferSize therefore leave an aggregate as it was.
C18_ResourceAggregates ==
    \A type \in {"css", "script", "image", "font", "video", "other"} :
        LET es == SelectSeq(resourceLog,
                            LAMBDA e : /\ "transferSize" \in DOMAIN e
                                       /\ getResourceType(e.name) = type)
            n == Len(es)
            load(i) == es[i].responseEnd - es[i].startTime
            loadSum[i \in 0..n] == IF i = 0 THEN 0 ELSE loadSum[i - 1] + load(i)
            sizeSum[i \in 0..n] == IF i = 0 THEN 0 ELSE sizeSum[i - 1] + es[i].transferSize
        IN  IF n = 0
            THEN ~IsSet(resourceMetrics, type)
            ELSE /\ IsSet(resourceMetrics, type)
                 /\ resourceMetrics[type].count = n
                 /\ resourceMetrics[type].totalSize = sizeSum[n]
                 /\ resourceMetrics[type].averageLoadTime.num * n
                        = loadSum[n] * resourceMetrics[type].averageLoadTime.den
                 /\ \A i \in 1..n : load(i) <= resourceMetrics[type].slowest
                 /\ \E i \in 1..n : load(i) = resourceMetrics[type].slowest

C18_Witness ==
    /\ Len(resourceLog) = 3
    /\ resourceLog[1].name = <<"/a", ".css">>
    /\ resourceLog[2].name = <<"/c", ".css">>
    /\ resourceLog[3].name = <<"/b", ".css", "?", "v=1">>
    /\ DOMAIN resourceMetrics = {"css"}
    /\ resourceMetrics["css"] =
           [count |-> 2, totalSize |-> 5,
            averageLoadTime |-> [num |-> 200, den |-> 1], slowest |-> 300]

\* C19 as stated: the issues of an audit are, image by image and in the
\* order alt, lazy loading, srcset, format, one message for each of the four
\* conditions that fails, the fourth being that the source URL (src, or
\* currentSrc when src is empty) does not end in a .webp or .avif extension.
C19_FourConditionsPerImage ==
    iResult # <<>> =>
        LET n == Len(domImages)
            url(i) == IF domImages[i].src # <<>> THEN domImages[i].src
                      ELSE domImages[i].currentSrc
            endsModern(u) == Len(u) > 0 /\ u[Len(u)] \in {".webp", ".avif"}
            texts(i) ==
                (IF domImages[i].alt = "" THEN <<"Missing alt text">> ELSE <<>>)
                \o (IF domImages[i].loading # "lazy"
                    THEN <<"Not using lazy loading">> ELSE <<>>)
                \o (IF domImages[i].srcset = ""
                    THEN <<"No responsive srcset">> ELSE <<>>)
                \o (IF ~endsModern(url(i))
                    THEN <<"Not using modern format (WebP/AVIF)">> ELSE <<>>)
            expected[i \in 0..n] ==
                IF i = 0 THEN <<>>
                ELSE expected[i - 1]
                     \o [j \in 1..Len(texts(i)) |-> [image |-> i, text |-> texts(i)[j]]]
        IN  iResult[1].issues = expected[n]

\* C19 amended: as above, the fourth condition being that the source URL
\* (src, or currentSrc when src is empty) is not empty and holds no .webp or
\* .avif extension that is directly followed by "?" or by the end of the
\* URL; an image contributes 0 to 4 issues, totalImages is the number of
\* images, and score = max(0, 100 - 10 * number of issues), within 0..100.
C19_IssuesAndScore ==
    iResult # <<>> =>
        LET n == Len(domImages)
            url(i) == IF domImages[i].src # <<>> THEN domImages[i].src
                      ELSE domImages[i].currentSrc
            modern(u) == \E k \in 1..Len(u) :
                             /\ u[k] \in {".webp", ".avif"}
                             /\ (k = Len(u) \/ u[k + 1] = "?")
            texts(i) ==
                (IF domImages[i].alt = "" THEN <<"Missing alt text">> ELSE <<>>)
                \o (IF domImages[i].loading # "lazy"
                    THEN <<"Not using lazy loading">> ELSE <<>>)
                \o (IF domImages[i].srcset = ""
                    THEN <<"No responsive srcset">> ELSE <<>>)
                \o (IF url(i) # <<>> /\ ~modern(url(i))
                    THEN <<"Not using modern format (WebP/AVIF)">> ELSE <<>>)
            expected[i \in 0..n] ==
                IF i = 0 THEN <<>>
                ELSE expected[i - 1]
                     \o [j \in 1..Len(texts(i)) |-> [image |-> i, text |-> texts(i)[j]]]
            issues == iResult[1].issues
        IN  /\ issues = expected[n]
            /\ \A i \in 1..n :
                  Cardinality({j \in 1..Len(issues) : issues[j].image = i}) \in 0..4
            /\ iResult[1].totalImages = n
            /\ iResult[1].score \in 0..100
            /\ iResult[1].score = (IF 10 * Len(issues) >= 100 THEN 0
                                   ELSE 100 - 10 * Len(issues))

C19_Witness ==
    /\ iResult # <<>>
    /\ Len(domImages) = 1
    /\ domImages[1].alt = ""
    /\ domImages[1].loading = "eager"
    /\ domImages[1].srcset = ""
    /\ domImages[1].src = <<"/a", ".jpg">>
    /\ Len(iResult[1].issues) = 4
    /\ iResult[1].score = 60

\* C15: once the handle of initPerformanceMonitoring has been called, no
\* event of the vitals streams, of the resource stream or of the window, in
\* any order, calls options.onReport or changes performanceData.
C15_NothingAfterMonitorDisconnect ==
    [][monitorDisconnected =>
          (pout' = <<>> /\ performanceData' = performanceData)]_vars

\* C20: no rejection of an analytics POST reaches the page; every
\* sendToAnalytics call issues one POST when fetch is defined and none
\* otherwise, and a rejection issues none (no retry) and calls neither
\* callback; after a rejection every observer and listener that was
\* subscribed stays subscribed until the handle is called, so later stream
\* events are still delivered.
C20_RejectedPostSwallowed ==
    /\ ~unhandled
    /\ IF options.analyticsId # "" /\ fetchDefined
       THEN Len(sent) = Len(out)
       ELSE sent = <<>>
    /\ last = "post-rejected" => (sent = <<>> /\ out = <<>> /\ pout = <<>>)
    /\ (rejected /\ ~monitorDisconnected) =>
          /\ subscribed = {"fcpObserver", "lcpObserver", "inputObserver",
                           "clsObserver", "visibilitychange", "beforeunload"}
          /\ resourceSubscribed

C20_Witness ==
    /\ rejected
    /\ last = "paint"
    /\ IsSet(report, "fcp")
    /\ report["fcp"].value = 3001
    /\ out = <<report>>
    /\ Len(pout) = 1
    /\ pout[1]["webVitals"] = report
    /\ Len(sent) = 1
    /\ sent[1].body = report

\* the report keys the handler of a page event may write
KeysOfStream(event) ==
    CASE event = "paint" -> {"fcp"}
      [] event = "largest-contentful-paint" -> {"lcp"}
      [] event = "input" -> {"fid", "inp"}
      [] event = "layout-shift" -> {"cls"}
      [] OTHER -> {}

\* the report keys whose presence or metric differs between two reports
ChangedKeys(before, after) ==
    { k \in MetricNames :
        \/ IsSet(before, k) # IsSet(after, k)
        \/ IsSet(before, k) /\ IsSet(after, k) /\ before[k] # after[k] }

\* C21: every step changes only the report keys of the stream whose batch it
\* delivers: a paint batch only fcp, a largest-contentful-paint batch only
\* lcp, an input batch only fid and inp, a layout-shift batch only cls, and
\* the finalizer (visibilitychange, beforeunload) and disconnect no key; so
\* a key other than ttfb becomes set only in a step of its own stream.
C21_HandlerWritesOwnKeyOnly ==
    [][ChangedKeys(report, report') \subseteq KeysOfStream(last')]_vars

C21_Witness ==
    /\ last = "input"
    /\ Len(inputBatch) = 2
    /\ Len(out) = 2
    /\ IsSet(out[1], "fid") /\ ~IsSet(out[1], "inp")
    /\ IsSet(report, "inp")
    /\ IsSet(report, "fcp") /\ IsSet(report, "lcp") /\ IsSet(report, "cls")
    /\ IsSet(report, "ttfb")

\* C22: under the default budget (no override), for each of lcp, fid, cls,
\* fcp and ttfb held by a report whose metrics were built by createMetric,
\* checkPerformanceBudget returns a violation for the metric exactly when the
\* metric's rating is not 'good'; and there is no other violation about a
\* metric, so inp yields none whatever its value or rating.
C22_ViolationIffNotGood ==
    (bResult # <<>> /\ bBudget = EmptyObject) =>
        LET violations == bResult[1].violations
            texts == { violations[i].text : i \in 1..Len(violations) }
            textOf == [lcp  |-> "LCP exceeded budget: ",
                       fid  |-> "FID exceeded budget: ",
                       cls  |-> "CLS exceeded budget: ",
                       fcp  |-> "FCP exceeded budget: ",
                       ttfb |-> "TTFB exceeded budget: "]
            notGood == { k \in DOMAIN textOf :
                            IsSet(bReport, k) /\ bReport[k].rating # "good" }
        IN  /\ \A k \in DOMAIN textOf :
                  IsSet(bReport, k) =>
                      ((textOf[k] \in texts) <=> (bReport[k].rating # "good"))
            /\ Cardinality({ i \in 1..Len(violations) :
                                violations[i].text \notin
                                    {"Too many images: ", "Too many scripts: "} })
                   = Cardinality(notGood)

C22_Witness ==
    /\ bResult # <<>>
    /\ bBudget = EmptyObject
    /\ IsSet(bReport, "inp") /\ bReport["inp"].rating = "poor"
    /\ IsSet(bReport, "lcp") /\ bReport["lcp"].value = 2500
    /\ bReport["lcp"].rating = "good"
    /\ IsSet(bReport, "fid") /\ bReport["fid"].rating = "needs-improvement"
    /\ IsSet(bReport, "cls") /\ bReport["cls"].value = 100
    /\ IsSet(bReport, "fcp") /\ bReport["fcp"].value = 1801
    /\ IsSet(bReport, "ttfb") /\ bReport["ttfb"].value = 801
    /\ Len(domImages) = 0
    /\ domScripts = 10
    /\ Len(bResult[1].violations) = 3

\* C23: in a session started by initPerformanceMonitoring, every report the
\* coordinator passes to its callback is followed by exactly one
\* options.onReport call; at that call performanceData.webVitals is that
\* report and performanceData.budgetCheck is checkPerformanceBudget of that
\* report with options.budget; and sendToAnalytics runs for the report (its
\* gtag events and its POST, as far as gtag and fetch exist) exactly when
\* options.analyticsId is given.
C23_EmissionForwardedOnce ==
    last # "load" =>
        /\ Len(pout) = Len(out)
        /\ Len(gtagEvents) = Len(out)
        /\ \A i \in 1..Len(out) :
              /\ pout[i]["webVitals"] = out[i]
              /\ pout[i]["budgetCheck"] = checkPerformanceBudget(out[i], options.budget)
              /\ gtagEvents[i] =
                     IF options.analyticsId # "" /\ gtagDefined
                     THEN sendToAnalytics(out[i], options.analyticsId).gtag
                     ELSE {}
        /\ sent = IF options.analyticsId # "" /\ fetchDefined
                  THEN [i \in 1..Len(out) |->
                            [url |-> "/api/analytics/web-vitals", method |-> "POST",
                             body |-> out[i]]]
                  ELSE <<>>
        /\ (options.analyticsId # "" /\ Len(out) > 0) =>
               (sent # <<>> \/ gtagEvents[1] # {})

C23_Witness ==
    /\ last = "paint"
    /\ options.analyticsId = "G-1"
    /\ gtagDefined /\ fetchDefined
    /\ Len(out) = 1
    /\ IsSet(out[1], "fcp") /\ out[1]["fcp"].value = 3001
    /\ IsSet(out[1], "ttfb")
    /\ Len(pout) = 1
    /\ ~pout[1]["budgetCheck"].passed
    /\ Len(sent) = 1
    /\ Cardinality(gtagEvents[1]) = 2

C25_TrailingSlashesRemoved ==
    uResult # <<>> =>
        LET result == uResult[1]
            appended == SubSeq(result, Len(uSiteUrl) + 1, Len(result))
            kept == { n \in 0..Len(uPathname) :
                        \A i \in (n + 1)..Len(uPathname) : uPathname[i] = "/" }
            stripped == SubSeq(uPathname, 1,
                               CHOOSE n \in kept : \A m \in kept : n <= m)
        IN  /\ SubSeq(result, 1, Len(uSiteUrl)) = uSiteUrl
            /\ uPathname = <<"/">> => appended = <<>>
            /\ uPathname # <<"/">> => appended = stripped
            /\ appended = <<>> \/ appended[Len(appended)] # "/"
====
